---- MODULE Spec2Model ----
(***************************************************************************)
(* VibeBeat (src/vibebeat_pyqt.py): the playback/queue controller of the   *)
(* PyQt5 music player, as a state machine.                                 *)
(*                                                                         *)
(* The VibeBeatApp object is one record (its fields, the values shown by   *)
(* its widgets, and the state of its QMediaPlayer).  Every slot of the     *)
(* class is an operator from an app record to the app record it leaves,    *)
(* translated statement by statement; an action applies one slot.  Qt      *)
(* delivers the player's signals synchronously, so a slot that calls       *)
(* player.play() runs _on_play_state inside the same step.                 *)
(***************************************************************************)
EXTENDS Integers, Sequences, FiniteSets, TLC

VARIABLES
    app,      \* the VibeBeatApp instance
    twin,     \* the same program started without QtMultimedia, given the same user events
    lastOp,   \* the slot that ran last: [name, arg], and for the two toggles that undo
              \* themselves whether the same slot ran before it
    pre       \* [volume, likedSongs] as they were before the slot that ran last

vars == <<app, twin, lastOp, pre>>

----------------------------------------------------------------------------
(* Bounds of the model *)

\* uploads accepted in one run
MaxUploads == 1

\* playlists created in one run
MaxPlaylists == 2

(* Program constants *)

DefaultVolume == 70
VolumeMin == 0
VolumeMax == 100
LowVolumeBelow == 50
ProgressMax == 1000
DefaultId == 1000
MsPerSecond == 1000
SecondsPerMinute == 60

(* Texts the widgets show *)

GlyphPlay == "play"              \* playBtn text U+25B6
GlyphPause == "pause"            \* playBtn text U+23F8
GlyphHeartEmpty == "heart-empty" \* likeBtn text U+2661
GlyphHeartFull == "heart-full"   \* likeBtn text U+2764
GlyphMuted == "speaker-muted"    \* muteBtn text U+1F507
GlyphLow == "speaker-low"        \* muteBtn text U+1F508
GlyphLoud == "speaker-loud"      \* muteBtn text U+1F50A

NoticePlayback == "Audio playback isn't available in this environment. The UI will still work."
NoticeNoBackend == "Cannot play without multimedia backend."

NoMedia == "no-media"
BellUrl == "https://www.soundjay.com/misc/sounds/bell-ringing-05.wav"

----------------------------------------------------------------------------
(* Data *)

Song(id, title, artist, album, audio) ==
    [id |-> id, title |-> title, artist |-> artist, album |-> album, audio |-> audio]

demo ==
    <<Song(1, "Night Vibes", "Chill Beats", "Ambient Collection", BellUrl),
      Song(2, "Pop Energy", "Pop Mix", "Hits 2024", BellUrl),
      Song(3, "Rock Classics", "Rock Legends", "Greatest Hits", BellUrl),
      Song(4, "Lofi Chill", "Study Vibes", "Focus Music", BellUrl)>>

\* _load_library: self.musicLibrary[s.id] = s for the demo songs
load_library == [i \in {demo[k].id : k \in 1..Len(demo)} |->
                    (CHOOSE s \in {demo[k] : k \in 1..Len(demo)} : s.id = i)]

\* files the upload dialog can return, with os.path.splitext(basename)[0] and
\* QUrl.fromLocalFile(path).toString() of each
UploadPaths == {"/home/user/Music/demo.mp3"}

TitleOfPath(path) == CASE path = "/home/user/Music/demo.mp3" -> "demo"

UrlOfPath(path) == CASE path = "/home/user/Music/demo.mp3" -> "file:///home/user/Music/demo.mp3"

MaxOf(S) == CHOOSE m \in S : \A x \in S : x <= m

Min2(x, y) == IF x <= y THEN x ELSE y

Max2(x, y) == IF x >= y THEN x ELSE y

----------------------------------------------------------------------------
(* What a slot lets out: the calls it makes on the QMediaPlayer, in order,  *)
(* and the message boxes it opens.                                          *)

Issue(a, cmd) == [a EXCEPT !.cmds = Append(@, cmd)]

Notify(a, text) == [a EXCEPT !.notices = Append(@, text)]

Begin(a) == [a EXCEPT !.cmds = <<>>, !.notices = <<>>]

----------------------------------------------------------------------------
(* Slots the player's signals are connected to (_wire_events, 513-517)      *)

\* _format_time(ms) -> "M:SS"
format_time(ms) ==
    LET secs == Max2(0, ms \div MsPerSecond)
        m == secs \div SecondsPerMinute
        s == secs % SecondsPerMinute
    IN  ToString(m) \o ":" \o (IF s < 10 THEN "0" ELSE "") \o ToString(s)

\* QSlider.setValue on self.progress (range 0..1000, signals blocked)
progress_setValue(a, v) == [a EXCEPT !.progress = Max2(0, Min2(ProgressMax, v))]

\* _on_play_state(state)
on_play_state(a, state) ==
    LET playing == a.hasPlayer /\ state = "Playing"
    IN  [a EXCEPT !.playBtn = IF playing THEN GlyphPause ELSE GlyphPlay]

\* _on_position_changed without the test of self._seekingActive
on_position_changed_while_seeking(a, pos) ==
    LET a1 == IF a.hasPlayer
              THEN progress_setValue(a, (pos * 1000) \div Max2(1, a.player.duration))
              ELSE a
    IN  [a1 EXCEPT !.currentTimeLbl = format_time(pos)]

\* _on_position_changed(pos)
on_position_changed(a, pos) ==
    LET a1 == IF ~a.seekingActive /\ a.hasPlayer
              THEN progress_setValue(a, (pos * 1000) \div Max2(1, a.player.duration))
              ELSE a
    IN  [a1 EXCEPT !.currentTimeLbl = format_time(pos)]

\* _on_duration_changed(dur)
on_duration_changed(a, dur) == [a EXCEPT !.totalTimeLbl = format_time(dur)]

----------------------------------------------------------------------------
(* QMediaPlayer, as far as the program drives and reads it                  *)

\* QMediaPlayer.setMedia(content): stops playback, then holds the new media
player_setMedia(a, url) ==
    LET a1 == Issue(a, <<"setMedia", url>>)
        a2 == [a1 EXCEPT !.player.media = url, !.player.state = "Stopped",
                         !.player.position = 0, !.player.duration = 0]
    IN  IF a.player.state # "Stopped" THEN on_play_state(a2, "Stopped") ELSE a2

\* QMediaPlayer.play(): nothing to play without media
player_play(a) ==
    LET a1 == Issue(a, <<"play">>)
    IN  IF a.player.media = NoMedia \/ a.player.state = "Playing"
        THEN a1
        ELSE on_play_state([a1 EXCEPT !.player.state = "Playing"], "Playing")

\* QMediaPlayer.pause()
player_pause(a) ==
    LET a1 == Issue(a, <<"pause">>)
    IN  IF a.player.media = NoMedia \/ a.player.state = "Paused"
        THEN a1
        ELSE on_play_state([a1 EXCEPT !.player.state = "Paused"], "Paused")

\* QMediaPlayer.setVolume(v): Qt bounds the volume to 0..100
player_setVolume(a, v) ==
    [Issue(a, <<"setVolume", v>>) EXCEPT !.player.volume = Max2(0, Min2(100, v))]

\* QMediaPlayer.setPosition(ms): positionChanged reaches _on_position_changed
player_setPosition(a, ms) ==
    LET a1 == Issue(a, <<"setPosition", ms>>)
        p == Max2(0, ms)
    IN  IF a.player.media = NoMedia \/ a.player.position = p
        THEN a1
        ELSE on_position_changed([a1 EXCEPT !.player.position = p], p)

\* _on_media_status without "and self.isRepeated"
on_media_status_always_restarts(a, status) ==
    IF ~a.hasPlayer
    THEN a
    ELSE IF status = "EndOfMedia"
         THEN player_play(player_setPosition(a, 0))
         ELSE a

\* _on_media_status(status)
on_media_status(a, status) ==
    IF ~a.hasPlayer
    THEN a
    ELSE IF status = "EndOfMedia" /\ a.isRepeated
         THEN player_play(player_setPosition(a, 0))
         ELSE a

----------------------------------------------------------------------------
(* Slots of the user's controls                                             *)

\* set_queue that adds the song at the end of the queue
set_queue_appends(a, song) ==
    [a EXCEPT !.playlist = Append(@, song), !.currentIndex = Len(a.playlist)]

\* set_queue without line 787: the cursor keeps its old value
set_queue_keeps_index(a, song) == [a EXCEPT !.playlist = <<song>>]

\* set_queue moved under "if self.player is not None"
set_queue_if_player(a, song) ==
    IF a.hasPlayer THEN [a EXCEPT !.playlist = <<song>>, !.currentIndex = 0] ELSE a

\* _play_song, 786-787: the playlist becomes the single song
set_queue(a, song) == [a EXCEPT !.playlist = <<song>>, !.currentIndex = 0]

\* set_media_and_play without line 794: the media is set and never played
set_media_only(a, song) ==
    IF a.hasPlayer
    THEN player_setMedia(a, song.audio)
    ELSE Notify(a, NoticePlayback)

\* set_media_and_play that leaves a playing player its media
set_media_unless_playing(a, song) ==
    IF a.hasPlayer
    THEN IF a.player.state = "Playing"
         THEN player_play(a)
         ELSE player_play(player_setMedia(a, song.audio))
    ELSE Notify(a, NoticePlayback)

\* _play_song, 790-800: hand the song to the player, or say that there is none
set_media_and_play(a, song) ==
    IF a.hasPlayer
    THEN player_play(player_setMedia(a, song.audio))
    ELSE Notify(a, NoticePlayback)

\* self.likeBtn = QToolButton(): setCheckable is never called on it
likeBtn_checkable == FALSE

\* QAbstractButton.setChecked on self.likeBtn: ignored by a button that is not checkable
likeBtn_setChecked(a, checked) ==
    [a EXCEPT !.likeBtnChecked = IF likeBtn_checkable THEN checked ELSE @]

\* _play_song, 802-806: the transport bar
show_song(a, song) ==
    [likeBtn_setChecked(a, song.id \in a.likedSongs)
        EXCEPT !.trackTitle = song.title, !.trackArtist = song.artist,
               !.playBtn = GlyphPause]

\* _play_song, 785-806: the song was found
play_found(a, song) == show_song(set_media_and_play(set_queue(a, song), song), song)

\* _play_song that opens a message box for an id it does not find
play_song_reports_missing(a, song_id) ==
    IF song_id \notin DOMAIN a.musicLibrary
    THEN Notify(a, "Song not found")
    ELSE play_found(a, a.musicLibrary[song_id])

\* _play_song(song_id)
play_song(a, song_id) ==
    IF song_id \notin DOMAIN a.musicLibrary
    THEN a
    ELSE play_found(a, a.musicLibrary[song_id])

\* _toggle_play
toggle_play(a) ==
    IF ~a.hasPlayer
    THEN Notify(a, NoticeNoBackend)
    ELSE IF a.player.state = "Playing"
         THEN player_pause(a)
         ELSE player_play(a)

\* the song at the cursor (self.playlist[self.currentIndex], 0-based)
current_song(a) == a.playlist[a.currentIndex + 1]

\* _prev
prev(a) ==
    IF a.currentIndex > 0
    THEN LET a1 == [a EXCEPT !.currentIndex = @ - 1]
         IN  play_song(a1, current_song(a1).id)
    ELSE a

\* _next that goes back to the first song after the last one
next_wraps(a) ==
    IF a.currentIndex < Len(a.playlist) - 1
    THEN LET a1 == [a EXCEPT !.currentIndex = @ + 1]
         IN  play_song(a1, current_song(a1).id)
    ELSE IF a.playlist # <<>>
         THEN LET a1 == [a EXCEPT !.currentIndex = 0]
              IN  play_song(a1, current_song(a1).id)
         ELSE a

\* _next that starts the last song again when repeat is on
next_restarts_on_repeat(a) ==
    IF a.currentIndex < Len(a.playlist) - 1
    THEN LET a1 == [a EXCEPT !.currentIndex = @ + 1]
         IN  play_song(a1, current_song(a1).id)
    ELSE IF a.isRepeated /\ a.playlist # <<>>
         THEN play_song(a, current_song(a).id)
         ELSE a

\* _next
next(a) ==
    IF a.currentIndex < Len(a.playlist) - 1
    THEN LET a1 == [a EXCEPT !.currentIndex = @ + 1]
         IN  play_song(a1, current_song(a1).id)
    ELSE a

\* _toggle_shuffle
toggle_shuffle(a) == [a EXCEPT !.isShuffled = ~@]

\* _toggle_repeat
toggle_repeat(a) == [a EXCEPT !.isRepeated = ~@]

\* flip_liked without the remove branch
flip_liked_add_only(liked, sid) == liked \cup {sid}

\* _toggle_like, 838-843: remove the id if present, add it otherwise
flip_liked(liked, sid) == IF sid \in liked THEN liked \ {sid} ELSE liked \cup {sid}

\* _toggle_like
toggle_like(a) ==
    IF a.currentIndex < 0 \/ a.playlist = <<>>
    THEN a
    ELSE LET sid == current_song(a).id
         IN  [a EXCEPT !.likedSongs = flip_liked(@, sid),
                       !.likeBtn = IF sid \in a.likedSongs
                                   THEN GlyphHeartEmpty ELSE GlyphHeartFull]

\* _set_volume(value)
set_volume(a, value) ==
    LET v == Max2(0, Min2(100, value))
        a1 == IF a.hasPlayer THEN player_setVolume(a, v) ELSE a
    IN  [a1 EXCEPT !.muteBtn = IF v = 0 THEN GlyphMuted
                               ELSE IF v < LowVolumeBelow THEN GlyphLow
                               ELSE GlyphLoud]

\* the slider without setRange(0, 100): QSlider's own range is 0..99
volume_bound_default(v) == Max2(0, Min2(99, v))

\* self.volume.setRange(0, 100): the value QSlider keeps for a requested one
volume_bound(v) == Max2(VolumeMin, Min2(VolumeMax, v))

\* QSlider.setValue on self.volume; valueChanged is connected to _set_volume
volume_setValue(a, v) ==
    LET b == volume_bound(v)
    IN  IF b = a.volume THEN a ELSE set_volume([a EXCEPT !.volume = b], b)

\* the default in place of the remembered volume
get_prevVol_default(a) == DefaultVolume

\* getattr(self, "_prevVol", 70)
get_prevVol(a) == IF a.prevVolSet THEN a.prevVol ELSE DefaultVolume

\* self._prevVol = vol
set_prevVol(a, vol) == [a EXCEPT !.prevVolSet = TRUE, !.prevVol = vol]

\* _toggle_mute
toggle_mute(a) ==
    IF ~a.hasPlayer
    THEN LET vol == a.volume
         IN  IF vol = 0
             THEN volume_setValue(a, get_prevVol(a))
             ELSE volume_setValue(set_prevVol(a, vol), 0)
    ELSE LET vol == a.player.volume
         IN  IF vol = 0
             THEN LET a1 == player_setVolume(a, get_prevVol(a))
                  IN  volume_setValue(a1, get_prevVol(a1))
             ELSE volume_setValue(player_setVolume(set_prevVol(a, vol), 0), 0)

\* _seeking(active)
seeking(a, active) == [a EXCEPT !.seekingActive = active]

\* the (duration, value) pairs, among those drawn below, for which the double
\* dur * (value / 1000.0) falls just under the exact quotient: 9 / 1000.0 is
\* rounded down, and 3000 * 0.009 evaluates to 26.999999999999996
FloatShortfall == {<<3000, 9>>}

\* _seek_position, 917: int(dur * (value / 1000.0)) in double arithmetic
seek_target(dur, value) ==
    IF <<dur, value>> \in FloatShortfall
    THEN (dur * value) \div ProgressMax - 1
    ELSE (dur * value) \div ProgressMax

\* _seek_position(value)
seek_position(a, value) ==
    IF ~a.hasPlayer
    THEN a
    ELSE player_setPosition(a, seek_target(a.player.duration, value))

\* _upload_song, 752: max(self.musicLibrary.keys(), default=1000) + 1
new_id(a) ==
    (IF DOMAIN a.musicLibrary = {} THEN DefaultId ELSE MaxOf(DOMAIN a.musicLibrary)) + 1

\* _upload_song, with the file dialog's answer
upload_song(a, accepted, path) ==
    IF ~accepted
    THEN a
    ELSE LET id == new_id(a)
             song == Song(id, TitleOfPath(path), "Local File", "Uploads", UrlOfPath(path))
             lib == [i \in DOMAIN a.musicLibrary \cup {id} |->
                        IF i = id THEN song ELSE a.musicLibrary[i]]
         IN  play_song([a EXCEPT !.musicLibrary = lib], id)

----------------------------------------------------------------------------
(* Search                                                                   *)

\* characters str.strip() removes
IsSpace(c) == c \in {" ", "\t", "\n", "\r"}

\* str.strip()
RECURSIVE strip(_)
strip(s) ==
    IF s = "" THEN s
    ELSE IF IsSpace(SubSeq(s, 1, 1)) THEN strip(SubSeq(s, 2, Len(s)))
    ELSE IF IsSpace(SubSeq(s, Len(s), Len(s))) THEN strip(SubSeq(s, 1, Len(s) - 1))
    ELSE s

Upper == "ABCDEFGHIJKLMNOPQRSTUVWXYZ"

Lower == "abcdefghijklmnopqrstuvwxyz"

\* str.lower() of one character
lower_char(c) ==
    IF \E i \in 1..Len(Upper) : SubSeq(Upper, i, i) = c
    THEN LET i == CHOOSE i \in 1..Len(Upper) : SubSeq(Upper, i, i) = c
         IN  SubSeq(Lower, i, i)
    ELSE c

\* str.lower()
RECURSIVE lower(_)
lower(s) ==
    IF s = "" THEN s ELSE lower_char(SubSeq(s, 1, 1)) \o lower(SubSeq(s, 2, Len(s)))

\* Python's "t in s" for strings
contains(s, t) ==
    \E i \in 1..(Len(s) - Len(t) + 1) : SubSeq(s, i, i + Len(t) - 1) = t

\* self.musicLibrary.values(): the songs in insertion order, which is the order
\* of their ids (_load_library inserts 1..4, _upload_song inserts max + 1)
RECURSIVE values_from(_, _)
values_from(lib, ids) ==
    IF ids = {} THEN <<>>
    ELSE LET i == CHOOSE m \in ids : \A x \in ids : m <= x
         IN  <<lib[i]>> \o values_from(lib, ids \ {i})

library_values(a) == values_from(a.musicLibrary, DOMAIN a.musicLibrary)

\* QLabel(text) and _build_list_row(song), as _set_search_results receives them
Label(text) == [kind |-> "label", text |-> text, id |-> 0]

build_list_row(song) == [kind |-> "row", text |-> song.title, id |-> song.id]

\* _set_search_results(widgets)
set_search_results(a, widgets) == [a EXCEPT !.searchResults = widgets]

\* _show_search_placeholder
show_search_placeholder(a) == set_search_results(a, <<Label("Search for music")>>)

\* _on_search, 724: the test a song passes
song_matches(song, text) ==
    \/ contains(lower(song.title), text)
    \/ contains(lower(song.artist), text)
    \/ contains(lower(song.album), text)

\* _on_search without .lower() on the typed text
normalise_strip_only(text) == strip(text)

\* _on_search, 718: text.strip().lower()
normalise(text) == lower(strip(text))

\* _on_search(text)
on_search(a, typed) ==
    LET text == normalise(typed)
    IN  IF text = ""
        THEN show_search_placeholder([a EXCEPT !.searchClearVisible = FALSE])
        ELSE LET a1 == [a EXCEPT !.searchClearVisible = TRUE]
                 results == SelectSeq(library_values(a), LAMBDA s : song_matches(s, text))
             IN  IF results = <<>>
                 THEN set_search_results(a1, <<Label("No results for '" \o text \o "'")>>)
                 ELSE set_search_results(a1,
                          [k \in 1..Len(results) |-> build_list_row(results[k])])

----------------------------------------------------------------------------
(* Playlists                                                                *)

\* columns of the grid of playlist cards
PlaylistCols == 3

\* _populate_playlists: one label when there is no playlist, else one card per
\* playlist, in the order of the store, filling the grid row by row
populate_playlists(a) ==
    [a EXCEPT !.playlistsLayout =
        IF a.userPlaylists = <<>>
        THEN <<[kind |-> "label", name |-> "No custom playlists yet",
                description |-> "", songs |-> 0, r |-> 0, c |-> 0]>>
        ELSE [k \in 1..Len(a.userPlaylists) |->
                [kind |-> "card",
                 name |-> a.userPlaylists[k].name,
                 description |-> a.userPlaylists[k].description,
                 songs |-> Len(a.userPlaylists[k].songs),
                 r |-> (k - 1) \div PlaylistCols,
                 c |-> (k - 1) % PlaylistCols]]]

\* _create_playlist without the test of the name
create_playlist_any_name(a, ok, name, now) ==
    IF ~ok
    THEN a
    ELSE populate_playlists(
             [a EXCEPT !.userPlaylists = Append(@, [id |-> now, name |-> strip(name),
                                                    songs |-> <<>>, description |-> ""]),
                       !.playlistList = Append(@, strip(name))])

\* _create_playlist: ok and name are what the dialog returned, now is
\* QDateTime.currentMSecsSinceEpoch()
create_playlist(a, ok, name, now) ==
    IF ~ok \/ strip(name) = ""
    THEN a
    ELSE LET pl == [id |-> now, name |-> strip(name), songs |-> <<>>, description |-> ""]
         IN  populate_playlists(
                 [a EXCEPT !.userPlaylists = Append(@, pl),
                           !.playlistList = Append(@, strip(name))])

----------------------------------------------------------------------------
(* The state after VibeBeatApp.__init__                                     *)

new_player ==
    [state |-> "Stopped", media |-> NoMedia, volume |-> DefaultVolume,
     position |-> 0, duration |-> 0]

new_app(multimedia) ==
    [hasPlayer |-> multimedia,
     musicLibrary |-> load_library,
     playlist |-> <<>>,
     currentIndex |-> -1,
     isShuffled |-> FALSE,
     isRepeated |-> FALSE,
     likedSongs |-> {},
     player |-> new_player,
     trackTitle |-> "Select a song",
     trackArtist |-> "VibeBeat",
     likeBtn |-> GlyphHeartEmpty,
     likeBtnChecked |-> FALSE,
     playBtn |-> GlyphPlay,
     progress |-> 0,
     currentTimeLbl |-> "0:00",
     totalTimeLbl |-> "0:00",
     muteBtn |-> GlyphLoud,
     volume |-> DefaultVolume,
     seekingActive |-> FALSE,
     prevVolSet |-> FALSE,
     prevVol |-> 0,
     userPlaylists |-> <<>>,
     playlistList |-> <<>>,
     playlistsLayout |-> <<>>,
     searchClearVisible |-> TRUE,
     searchResults |-> <<>>,
     cmds |-> <<>>,
     notices |-> <<>>]

\* the volume the program reads back: player.volume(), or the slider without a player
Volume(a) == IF a.hasPlayer THEN a.player.volume ELSE a.volume

Snapshot(a) ==
    [volume |-> Volume(a), likedSongs |-> a.likedSongs,
     isShuffled |-> a.isShuffled, isRepeated |-> a.isRepeated]

Init ==
    /\ \E multimedia \in BOOLEAN : app = new_app(multimedia)
    /\ twin = new_app(FALSE)
    /\ lastOp = [name |-> "init", arg |-> 0, again |-> FALSE]
    /\ pre = Snapshot(app)

----------------------------------------------------------------------------
(* Inputs *)

\* ids given to _play_song: a demo song, and the id the first upload gets, which
\* no song has before that upload
PlayInputs == {1, 5}

\* values asked of the volume slider, inside and outside its range
VolumeInputs == {-5, 30, 150}

\* positions and durations the player reports, in ms
PositionInputs == {1500}

DurationInputs == {3000}

StatusInputs == {"LoadedMedia", "EndOfMedia"}

\* values the progress slider is dragged to
SeekInputs == {0, 9, 500, 1000}

(* Steps: a user event reaches the program and its twin; a signal of the    *)
(* player reaches only the program that has a player.                       *)

Again(name) == name \in {"toggle_mute", "toggle_like"} /\ lastOp.name = name

UserStep(name, arg, h(_)) ==
    /\ app' = h(Begin(app))
    /\ twin' = h(Begin(twin))
    /\ lastOp' = [name |-> name, arg |-> arg, again |-> Again(name)]
    /\ pre' = Snapshot(app)

PlayerStep(name, arg, h(_)) ==
    /\ app.hasPlayer
    /\ app' = h(Begin(app))
    /\ lastOp' = [name |-> name, arg |-> arg, again |-> Again(name)]
    /\ pre' = Snapshot(app)
    /\ twin' = Begin(twin)

PlaySong(id) ==
    /\ UserStep("play_song", id, LAMBDA a : play_song(a, id))

TogglePlay ==
    /\ UserStep("toggle_play", 0, LAMBDA a : toggle_play(a))

Prev ==
    /\ UserStep("prev", 0, LAMBDA a : prev(a))

NextSong ==
    /\ UserStep("next", 0, LAMBDA a : next(a))

ToggleShuffle ==
    /\ UserStep("toggle_shuffle", 0, LAMBDA a : toggle_shuffle(a))

ToggleRepeat ==
    /\ UserStep("toggle_repeat", 0, LAMBDA a : toggle_repeat(a))

ToggleLike ==
    /\ UserStep("toggle_like", 0, LAMBDA a : toggle_like(a))

SetVolume(v) ==
    /\ UserStep("set_volume", v, LAMBDA a : volume_setValue(a, v))

ToggleMute ==
    /\ UserStep("toggle_mute", 0, LAMBDA a : toggle_mute(a))

Seeking(active) ==
    /\ UserStep("seeking", IF active THEN 1 ELSE 0, LAMBDA a : seeking(a, active))

UploadSong(accepted, path) ==
    /\ Cardinality(DOMAIN app.musicLibrary) < Len(demo) + MaxUploads
    /\ UserStep("upload_song", IF accepted THEN 1 ELSE 0,
                LAMBDA a : upload_song(a, accepted, path))

\* sliderMoved(value): the pressed slider is dragged to value
SeekPosition(value) ==
    /\ app.seekingActive
    /\ UserStep("seek_position", value,
                LAMBDA a : seek_position([a EXCEPT !.progress = value], value))

\* positionChanged(pos) while media is loaded
PositionChanged(pos) ==
    /\ app.player.media # NoMedia
    /\ PlayerStep("position_changed", pos,
                  LAMBDA a : on_position_changed([a EXCEPT !.player.position = pos], pos))

\* durationChanged(dur) once the media's duration is known
DurationChanged(dur) ==
    /\ app.player.media # NoMedia
    /\ PlayerStep("duration_changed", dur,
                  LAMBDA a : on_duration_changed([a EXCEPT !.player.duration = dur], dur))

\* mediaStatusChanged(status); at the end of the media the player stops first
MediaStatusChanged(status) ==
    /\ app.player.media # NoMedia
    /\ PlayerStep("media_status", IF status = "EndOfMedia" THEN 1 ELSE 0,
                  LAMBDA a :
                      IF status = "EndOfMedia" /\ a.player.state = "Playing"
                      THEN on_media_status(
                               on_play_state([a EXCEPT !.player.state = "Stopped"], "Stopped"),
                               status)
                      ELSE on_media_status(a, status))

\* texts typed into the search box
SearchInputs ==
    <<"", "   ", "night", " NIGHT ", "Chill", "hits", "zzz_no_match", "demo", "uploads">>

\* searchEdit.textChanged(text)
OnSearch(i) ==
    /\ UserStep("search", i, LAMBDA a : on_search(a, SearchInputs[i]))

\* names typed into the "Create Playlist" dialog
NameInputs == <<"", "  ", "Mix", " Mix ", "Gym">>

\* readings of the clock, in milliseconds
ClockInputs == {1, 2}

\* what QInputDialog.getText returns: the typed name and ok, or on cancel an
\* empty name and not ok; lastOp.arg is the index of the name, 0 on cancel
CreatePlaylist(i, now) ==
    /\ Len(app.userPlaylists) < MaxPlaylists
    /\ UserStep("create_playlist", i,
                LAMBDA a : IF i = 0 THEN create_playlist(a, FALSE, "", now)
                                    ELSE create_playlist(a, TRUE, NameInputs[i], now))

Next ==
    \/ \E id \in PlayInputs : PlaySong(id)
    \/ TogglePlay
    \/ Prev
    \/ NextSong
    \/ ToggleShuffle
    \/ ToggleRepeat
    \/ ToggleLike
    \/ \E v \in VolumeInputs : SetVolume(v)
    \/ ToggleMute
    \/ \E accepted \in BOOLEAN, path \in UploadPaths : UploadSong(accepted, path)
    \/ \E status \in StatusInputs : MediaStatusChanged(status)

Spec == Init /\ [][Next]_vars

(* The progress bar: the seek slots and the player's position and duration  *)
(* signals write only the progress slider, the two time labels and the      *)
(* player's position; they are run with one song and the transport slots.   *)

NextSeek ==
    \/ \E id \in PlayInputs : PlaySong(id)
    \/ TogglePlay
    \/ ToggleRepeat
    \/ \E active \in BOOLEAN : Seeking(active)
    \/ \E value \in SeekInputs : SeekPosition(value)
    \/ \E pos \in PositionInputs : PositionChanged(pos)
    \/ \E dur \in DurationInputs : DurationChanged(dur)
    \/ \E status \in StatusInputs : MediaStatusChanged(status)

SpecSeek == Init /\ [][NextSeek]_vars

(* Loading: songs with different media are selected while the signals of    *)
(* the player arrive.                                                       *)

NextLoad ==
    \/ \E id \in PlayInputs : PlaySong(id)
    \/ \E accepted \in BOOLEAN, path \in UploadPaths : UploadSong(accepted, path)
    \/ TogglePlay
    \/ ToggleRepeat
    \/ \E pos \in PositionInputs : PositionChanged(pos)
    \/ \E dur \in DurationInputs : DurationChanged(dur)
    \/ \E status \in StatusInputs : MediaStatusChanged(status)

SpecLoad == Init /\ [][NextLoad]_vars

(* The search box: _on_search reads the catalog and writes only the search  *)
(* page; it is run with the slots that change the catalog and the queue.    *)

NextSearch ==
    \/ \E i \in 1..Len(SearchInputs) : OnSearch(i)
    \/ \E accepted \in BOOLEAN, path \in UploadPaths : UploadSong(accepted, path)
    \/ \E id \in PlayInputs : PlaySong(id)

SpecSearch == Init /\ [][NextSearch]_vars

(* The playlist store: _create_playlist is the only slot that writes it.    *)

NextPlaylists ==
    \/ \E i \in 0..Len(NameInputs), now \in ClockInputs : CreatePlaylist(i, now)
    \/ \E id \in PlayInputs : PlaySong(id)
    \/ ToggleLike

SpecPlaylists == Init /\ [][NextPlaylists]_vars

----------------------------------------------------------------------------
(* Properties                                                               *)

\* the three states of the transport controller: nothing selected, or a song
\* selected and the player (without one, the play button) playing or not
ControllerState(a) ==
    IF a.currentIndex < 0
    THEN "Idle"
    ELSE IF (IF a.hasPlayer THEN a.player.state = "Playing" ELSE a.playBtn = GlyphPause)
         THEN "Loaded-Playing"
         ELSE "Loaded-Paused"

\* what the claims compare between a program with a player and one without
Core(a) ==
    [playlist |-> a.playlist, currentIndex |-> a.currentIndex,
     likedSongs |-> a.likedSongs, isShuffled |-> a.isShuffled,
     isRepeated |-> a.isRepeated, volume |-> Volume(a), slider |-> a.volume]

CursorOk(a) ==
    /\ (a.currentIndex = -1) <=> (a.playlist = <<>>)
    /\ a.playlist # <<>> => (0 <= a.currentIndex /\ a.currentIndex < Len(a.playlist))

\* C1: in every reachable state the cursor is -1 exactly when the queue is
\* empty, and otherwise indexes an element of the queue.
C1_CursorInvariant == CursorOk(app) /\ CursorOk(twin)

C1_Witness ==
    /\ lastOp.name = "next"
    /\ Len(app.playlist) = 1
    /\ app.currentIndex = 0
    /\ Cardinality(DOMAIN app.musicLibrary) > Len(demo)

\* C2: after selectAndPlay(id) of a song in the catalog the queue is exactly
\* that song, the cursor is 0, the controller is Loaded-Playing with the play
\* indicator showing playing, and a program with a player has issued
\* setMedia(audio of the song) and then play, and nothing else.
C2_SelectAndPlay ==
    (lastOp.name = "play_song" /\ lastOp.arg \in DOMAIN app.musicLibrary) =>
        LET song == app.musicLibrary[lastOp.arg]
        IN  /\ app.playlist = <<song>> /\ app.currentIndex = 0
            /\ twin.playlist = <<song>> /\ twin.currentIndex = 0
            /\ ControllerState(app) = "Loaded-Playing"
            /\ ControllerState(twin) = "Loaded-Playing"
            /\ app.playBtn = GlyphPause /\ twin.playBtn = GlyphPause
            /\ IF app.hasPlayer
               THEN /\ app.cmds = << <<"setMedia", song.audio>>, <<"play">> >>
                    /\ app.player.media = song.audio
                    /\ app.player.state = "Playing"
               ELSE app.cmds = <<>>

C2_Witness ==
    /\ lastOp.name = "play_song"
    /\ lastOp.arg = 1
    /\ pre.likedSongs = {5}
    /\ app.hasPlayer
    /\ app.player.media = BellUrl
    /\ app.playlist = <<load_library[1]>>

\* C3: selectAndPlay(id) of an id no song has changes nothing at all, issues
\* no command to the player and opens no message box.
C3_MissingIsNoOp ==
    [][(lastOp'.name = "play_song" /\ lastOp'.arg \notin DOMAIN app.musicLibrary) =>
          /\ app' = Begin(app)
          /\ twin' = Begin(twin)]_vars

C3_Witness ==
    /\ lastOp.name = "play_song"
    /\ lastOp.arg \notin DOMAIN app.musicLibrary
    /\ app.playlist # <<>>
    /\ app.likedSongs # {}

\* C4: toggleMute twice in a row leaves the volume it started from, with and
\* without a player, whatever volume was remembered before; one toggleMute at
\* volume 70 gives volume 0 and remembers 70.
C4_MuteTwiceRestores ==
    [][/\ (lastOp.name = "toggle_mute" /\ lastOp'.name = "toggle_mute") =>
            /\ Volume(app') = pre.volume
            /\ app'.volume = pre.volume
       /\ (lastOp'.name = "toggle_mute" /\ Volume(app) = 70) =>
            /\ Volume(app') = 0
            /\ app'.prevVolSet /\ app'.prevVol = 70]_vars

C4_Witness ==
    /\ lastOp.name = "toggle_mute"
    /\ lastOp.again
    /\ Volume(app) = 30
    /\ app.volume = 30

\* C5: one toggleLike flips the membership of the current song's id in
\* likedSongs and of no other id; two in a row leave likedSongs as it was.
C5_LikeTwiceRestores ==
    [][/\ (lastOp'.name = "toggle_like" /\ app.currentIndex >= 0) =>
            LET sid == app.playlist[app.currentIndex + 1].id
            IN  /\ (sid \in app'.likedSongs) <=> (sid \notin app.likedSongs)
                /\ app'.likedSongs \ {sid} = app.likedSongs \ {sid}
       /\ (lastOp.name = "toggle_like" /\ lastOp'.name = "toggle_like") =>
            app'.likedSongs = pre.likedSongs]_vars

C5_Witness ==
    /\ lastOp.name = "toggle_like"
    /\ lastOp.again
    /\ app.currentIndex = 0
    /\ app.playlist[1].id = 5
    /\ app.likedSongs = {1, 5}

\* C6: the volume slider's value, the player's volume and every volume sent
\* to the player lie in 0..100; asking for 150 gives 100, asking for -5 gives 0,
\* and asking for a value in range gives that value.
C6_VolumeClamped ==
    /\ app.volume \in 0..100
    /\ twin.volume \in 0..100
    /\ app.player.volume \in 0..100
    /\ \A i \in 1..Len(app.cmds) :
          app.cmds[i][1] = "setVolume" => app.cmds[i][2] \in 0..100
    /\ lastOp.name = "set_volume" =>
          /\ lastOp.arg = 150 => (Volume(app) = 100 /\ app.volume = 100)
          /\ lastOp.arg = -5 => (Volume(app) = 0 /\ app.volume = 0)
          /\ lastOp.arg \in 0..100 => (Volume(app) = lastOp.arg /\ app.volume = lastOp.arg)

C6_Witness ==
    /\ lastOp.name = "set_volume"
    /\ lastOp.arg = 150
    /\ app.hasPlayer
    /\ app.cmds = << <<"setVolume", 100>> >>
    /\ pre.volume = 0

\* C7: skip(next) at the last song and skip(prev) at the first song or with
\* nothing selected change nothing and issue no command: the cursor does not
\* wrap around.
C7_SkipAtEndIsNoOp ==
    [][(\/ lastOp'.name = "next" /\ app.currentIndex = Len(app.playlist) - 1
        \/ lastOp'.name = "prev" /\ app.currentIndex <= 0) =>
          /\ app' = Begin(app)
          /\ twin' = Begin(twin)]_vars

C7_Witness ==
    /\ lastOp.name = "next"
    /\ app.hasPlayer
    /\ app.currentIndex = 0
    /\ Len(app.playlist) = 1
    /\ app.cmds = <<>>

\* C8: togglePlayPause with a player issues pause exactly in Loaded-Playing,
\* play exactly in Loaded-Paused, and in Idle changes nothing and issues no
\* command; without a player it changes nothing and opens the notice.
C8_TogglePlayPause ==
    [][lastOp'.name = "toggle_play" =>
          IF app.hasPlayer
          THEN CASE ControllerState(app) = "Loaded-Playing" ->
                        app'.cmds = << <<"pause">> >>
                 [] ControllerState(app) = "Loaded-Paused" ->
                        app'.cmds = << <<"play">> >>
                 [] ControllerState(app) = "Idle" ->
                        app' = Begin(app)
          ELSE app' = [Begin(app) EXCEPT !.notices = <<NoticeNoBackend>>]]_vars

\* C9: at the end of the media the queue and the cursor stay as they are; the
\* program issues setPosition(0) and then play if isRepeated is set, and
\* nothing otherwise.
C9_EndOfMedia ==
    [][(lastOp'.name = "media_status" /\ lastOp'.arg = 1) =>
          /\ app'.playlist = app.playlist
          /\ app'.currentIndex = app.currentIndex
          /\ app'.cmds = IF app.isRepeated
                         THEN << <<"setPosition", 0>>, <<"play">> >>
                         ELSE <<>>]_vars

C9_Witness ==
    /\ lastOp.name = "media_status"
    /\ lastOp.arg = 1
    /\ app.isRepeated
    /\ app.cmds = << <<"setPosition", 0>>, <<"play">> >>
    /\ app.player.state = "Playing"

\* C10: the program without a player never issues a command to one, and
\* after the same user events its queue, cursor, likedSongs, shuffle and
\* repeat flags and volume equal those of the program with a player.
C10_NoBackendSameState ==
    /\ ~twin.hasPlayer
    /\ twin.cmds = <<>>
    /\ ~app.hasPlayer => app.cmds = <<>>
    /\ Core(twin) = Core(app)

C10_Witness ==
    /\ app.hasPlayer
    /\ app.player.state = "Paused"
    /\ twin.likedSongs = {1}
    /\ twin.currentIndex = 0
    /\ twin.playlist[1].id = 5
    /\ Volume(twin) = 0
    /\ twin.prevVol = 30

\* C11: an accepted upload gives the new song the id max(existing ids, 1000) + 1,
\* which is above 1000 and above every id of the catalog; the songs already in
\* the catalog stay as they are, and the uploaded song becomes the queue, with
\* the cursor on it.
C11_UploadId ==
    [][(lastOp'.name = "upload_song" /\ lastOp'.arg = 1) =>
          LET old == DOMAIN app.musicLibrary
              new == DOMAIN app'.musicLibrary \ old
          IN  /\ Cardinality(new) = 1
              /\ \A id \in new :
                    /\ id = Max2(MaxOf(old), 1000) + 1
                    /\ id > 1000
                    /\ \A x \in old : id > x
                    /\ app'.playlist = <<app'.musicLibrary[id]>>
                    /\ app'.currentIndex = 0
              /\ \A x \in old : app'.musicLibrary[x] = app.musicLibrary[x]]_vars

\* C12: a search has three distinguishable outcomes: the "Search for music"
\* label exactly when the typed text is empty or only white space; otherwise
\* one "No results" label when no song matches; otherwise one row per song
\* whose title, artist or album contains the trimmed text whatever the case
\* of either, in the order the songs entered the catalog (ascending id).
Blank(typed) == \A i \in 1..Len(typed) : IsSpace(SubSeq(typed, i, i))

ContainsIgnoringCase(field, typed) ==
    LET wanted == lower(strip(typed))
        n == Len(wanted)
    IN  \E i \in 1..Len(field) :
            /\ i + n - 1 <= Len(field)
            /\ lower(SubSeq(field, i, i + n - 1)) = wanted

Hits(a, typed) ==
    {id \in DOMAIN a.musicLibrary :
        \/ ContainsIgnoringCase(a.musicLibrary[id].title, typed)
        \/ ContainsIgnoringCase(a.musicLibrary[id].artist, typed)
        \/ ContainsIgnoringCase(a.musicLibrary[id].album, typed)}

C12_Search ==
    lastOp.name = "search" =>
        LET typed == SearchInputs[lastOp.arg]
            shown == app.searchResults
        IN  /\ Blank(typed) <=> shown = <<Label("Search for music")>>
            /\ Blank(typed) <=> ~app.searchClearVisible
            /\ (~Blank(typed) /\ Hits(app, typed) = {}) =>
                   /\ Len(shown) = 1
                   /\ shown[1].kind = "label"
                   /\ shown[1] # Label("Search for music")
            /\ (~Blank(typed) /\ Hits(app, typed) # {}) =>
                   /\ \A k \in 1..Len(shown) : shown[k].kind = "row"
                   /\ {shown[k].id : k \in 1..Len(shown)} = Hits(app, typed)
                   /\ \A k \in 1..(Len(shown) - 1) : shown[k].id < shown[k + 1].id
            /\ typed = " NIGHT " => shown = <<build_list_row(demo[1])>>
            /\ typed = "hits" => shown = <<build_list_row(demo[2]), build_list_row(demo[3])>>

\* an upload followed by a search that finds the uploaded song by its album,
\* typed in another case, after the demo songs
C12_Witness ==
    /\ lastOp.name = "search"
    /\ SearchInputs[lastOp.arg] = "uploads"
    /\ Len(app.searchResults) = 1
    /\ app.searchResults[1].kind = "row"
    /\ app.searchResults[1].id = 5

\* C13: creating a playlist changes nothing when the dialog is cancelled or the
\* name is empty after trimming; otherwise it appends exactly one playlist with
\* the trimmed name, no songs and an empty description, so the store holds the
\* accepted playlists in creation order, and a name may occur twice.
Rejected(i) == i = 0 \/ Blank(NameInputs[i])

C13_CreatePlaylist ==
    [][lastOp'.name = "create_playlist" =>
          LET i == lastOp'.arg
              old == app.userPlaylists
              new == app'.userPlaylists
          IN  /\ Rejected(i) => app' = Begin(app)
              /\ ~Rejected(i) =>
                     /\ Len(new) = Len(old) + 1
                     /\ SubSeq(new, 1, Len(old)) = old
                     /\ new[Len(new)].name = strip(NameInputs[i])
                     /\ ~Blank(new[Len(new)].name)
                     /\ new[Len(new)].songs = <<>>
                     /\ new[Len(new)].description = ""
                     /\ app'.playlistList = Append(app.playlistList, new[Len(new)].name)
                     /\ [app' EXCEPT !.userPlaylists = old,
                                      !.playlistList = app.playlistList,
                                      !.playlistsLayout = app.playlistsLayout] = Begin(app)]_vars

\* two playlists named "Mix", the second typed with blanks around the name
C13_Witness ==
    /\ lastOp.name = "create_playlist"
    /\ lastOp.arg \in 1..Len(NameInputs)
    /\ NameInputs[lastOp.arg] = " Mix "
    /\ Len(app.userPlaylists) = 2
    /\ app.userPlaylists[1].name = "Mix"
    /\ app.userPlaylists[2].name = "Mix"

\* C14: whenever a song is current, the like button of the transport bar shows
\* "liked" exactly when the id of the current song is in likedSongs.
ShowsLiked(a) == a.likeBtn = GlyphHeartFull \/ a.likeBtnChecked

C14_LikeIndicator ==
    app.currentIndex >= 0 =>
        (ShowsLiked(app) <=> current_song(app).id \in app.likedSongs)

\* C15: dragging the progress slider to raw in 0..1000 issues
\* setPosition(floor(duration * raw / 1000)) to the player, and issues no
\* command when there is no player or when the duration is 0 (unknown).
C15_SeekTo ==
    lastOp.name = "seek_position" =>
        IF ~app.hasPlayer \/ app.player.duration = 0
        THEN app.cmds = <<>>
        ELSE app.cmds = << <<"setPosition", (app.player.duration * lastOp.arg) \div 1000>> >>

\* C16: the seeking flag is true exactly from the press of the progress slider
\* to its release; a positionChanged callback that arrives while it is true
\* leaves the slider where it is (also the callback raised by the seek's own
\* setPosition, which leaves the slider where the user dragged it), every
\* positionChanged callback writes the elapsed-time label, and with the flag
\* false the callback moves the slider to position * 1000 / duration.
SliderFor(a, pos) == Max2(0, Min2(1000, (pos * 1000) \div Max2(1, a.player.duration)))

C16_SeekHoldsSlider ==
    [][/\ lastOp'.name = "seeking" => app'.seekingActive = (lastOp'.arg = 1)
       /\ lastOp'.name # "seeking" => app'.seekingActive = app.seekingActive
       /\ lastOp'.name = "position_changed" =>
              /\ app'.currentTimeLbl = format_time(lastOp'.arg)
              /\ app.seekingActive => app'.progress = app.progress
              /\ ~app.seekingActive => app'.progress = SliderFor(app', lastOp'.arg)
       /\ (lastOp'.name = "seek_position" /\ app.hasPlayer) =>
              /\ app'.progress = lastOp'.arg
              /\ app'.player.position # app.player.position =>
                     app'.currentTimeLbl = format_time(app'.player.position)]_vars

\* the slider was pressed and dragged to 9, then the player reported 1500 ms of
\* 3000: the label shows 0:01 and the slider is still at 9
C16_Witness ==
    /\ lastOp.name = "position_changed"
    /\ app.seekingActive
    /\ app.player.duration = 3000
    /\ app.player.position = 1500
    /\ app.progress = 9
    /\ app.currentTimeLbl = "0:01"

\* C17: with a player, whenever a song is current the media the player holds
\* is the audio of the current song, whatever signals of the player
\* (position, duration, media status with the play-state changes they cause)
\* arrive after a selection; no signal changes the media, the queue or the
\* cursor.
PlayerSignals == {"position_changed", "duration_changed", "media_status"}

C17_Supersedes ==
    [][/\ (app'.hasPlayer /\ app'.currentIndex >= 0) =>
              app'.player.media = current_song(app').audio
       /\ lastOp'.name \in PlayerSignals =>
              /\ app'.player.media = app.player.media
              /\ app'.playlist = app.playlist
              /\ app'.currentIndex = app.currentIndex]_vars

\* the uploaded song was loaded, then song 1 was selected, and the end of
\* media arrives with repeat on: the player holds and replays song 1's audio
C17_Witness ==
    /\ lastOp.name = "media_status"
    /\ lastOp.arg = 1
    /\ app.isRepeated
    /\ 5 \in DOMAIN app.musicLibrary
    /\ app.currentIndex = 0
    /\ app.playlist[1].id = 1
    /\ app.player.media = BellUrl
    /\ app.player.media # app.musicLibrary[5].audio
    /\ app.player.state = "Playing"

\* C18: the shuffle and the repeat button each flip their own flag and nothing
\* else (no player command, same queue, cursor, likedSongs, volume and play
\* state), so two presses in a row restore the flag; previous and next give
\* the same result whatever the two flags are, and leave the flags alone.
WithFlags(a, s, r) == [a EXCEPT !.isShuffled = s, !.isRepeated = r]

C18_ShuffleRepeat ==
    [][/\ lastOp'.name = "toggle_shuffle" =>
              /\ app' = [Begin(app) EXCEPT !.isShuffled = ~app.isShuffled]
              /\ twin' = [Begin(twin) EXCEPT !.isShuffled = ~twin.isShuffled]
              /\ app'.cmds = <<>>
              /\ lastOp.name = "toggle_shuffle" => app'.isShuffled = pre.isShuffled
       /\ lastOp'.name = "toggle_repeat" =>
              /\ app' = [Begin(app) EXCEPT !.isRepeated = ~app.isRepeated]
              /\ twin' = [Begin(twin) EXCEPT !.isRepeated = ~twin.isRepeated]
              /\ app'.cmds = <<>>
              /\ lastOp.name = "toggle_repeat" => app'.isRepeated = pre.isRepeated
       /\ lastOp'.name = "next" =>
              /\ \A s, r \in BOOLEAN :
                     next(WithFlags(Begin(app), s, r)) = WithFlags(app', s, r)
              /\ app'.currentIndex = IF app.currentIndex < Len(app.playlist) - 1
                                     THEN app.currentIndex + 1 ELSE app.currentIndex
              /\ app'.isShuffled = app.isShuffled /\ app'.isRepeated = app.isRepeated
       /\ lastOp'.name = "prev" =>
              /\ \A s, r \in BOOLEAN :
                     prev(WithFlags(Begin(app), s, r)) = WithFlags(app', s, r)
              /\ app'.currentIndex = IF app.currentIndex > 0
                                     THEN app.currentIndex - 1 ELSE app.currentIndex
              /\ app'.isShuffled = app.isShuffled /\ app'.isRepeated = app.isRepeated]_vars

\* shuffle was just switched on while a liked song plays with repeat on
C18_Witness ==
    /\ lastOp.name = "toggle_shuffle"
    /\ app.isShuffled /\ ~pre.isShuffled
    /\ app.isRepeated
    /\ app.hasPlayer /\ app.player.state = "Playing"
    /\ app.currentIndex = 0
    /\ app.likedSongs = {app.playlist[1].id}
    /\ app.cmds = <<>>

\* C19: the queue is empty before the first selection and holds exactly one
\* song afterwards, the cursor is -1 or 0, there is never a previous or a
\* next song, previous and next change nothing, and once a song is current
\* a song stays current.
HasPrevious(a) == a.currentIndex > 0

HasNext(a) == a.currentIndex < Len(a.playlist) - 1

SingleSongQueue(a) ==
    /\ a.currentIndex \in {-1, 0}
    /\ Len(a.playlist) = a.currentIndex + 1
    /\ ~HasPrevious(a)
    /\ ~HasNext(a)

C19_SingleSongQueue ==
    [][/\ SingleSongQueue(app) /\ SingleSongQueue(app')
       /\ SingleSongQueue(twin) /\ SingleSongQueue(twin')
       /\ lastOp'.name \in {"prev", "next"} =>
              /\ [app' EXCEPT !.cmds = <<>>, !.notices = <<>>]
                    = [app EXCEPT !.cmds = <<>>, !.notices = <<>>]
              /\ app'.cmds = <<>> /\ app'.notices = <<>>
       /\ app.currentIndex >= 0 => app'.currentIndex >= 0
       /\ twin.currentIndex >= 0 => twin'.currentIndex >= 0
       /\ ControllerState(app) # "Idle" => ControllerState(app') # "Idle"]_vars

\* previous is pressed after the uploaded song and then song 1 were selected:
\* the queue holds song 1 alone
C19_Witness ==
    /\ lastOp.name = "prev"
    /\ 5 \in DOMAIN app.musicLibrary
    /\ app.playlist = <<app.musicLibrary[1]>>
    /\ app.currentIndex = 0
    /\ ControllerState(app) = "Loaded-Playing"
====
